---------------------------- MODULE Spec2Model ----------------------------
(***************************************************************************)
(* PiSearch (src/app.py): first-occurrence search of a digit pattern in a  *)
(* packed-nibble file of the digits of pi, and the Flask handler on top.   *)
(*                                                                         *)
(* The file is a sequence of bytes 0..255; byte k holds digit 2k in its    *)
(* high nibble and digit 2k+1 in its low nibble.  Python's data[k] is      *)
(* seq[k+1] here.  A call's outcome is Ret(v) (a returned value) or        *)
(* Raise(e) (a propagated exception).                                      *)
(***************************************************************************)
EXTENDS Integers, Sequences, FiniteSets, TLC

(* ------------------------------ bounds -------------------------------- *)
MaxBytes == 2
MaxPatLen == 2
MaxCount == 5
NumCalls == 2

(* ------------------------------ inputs -------------------------------- *)
\* Nibble values a stored byte is built from: two digits and one value
\* outside 0..9 (a corrupt nibble).
NibbleVals == {1, 4, 10}
ByteVals == {h * 16 + l : h \in NibbleVals, l \in NibbleVals}
\* The 14-digit store 14159265358979 of the specification's example.
ExampleStore == <<1*16+4, 1*16+5, 9*16+2, 6*16+5, 3*16+5, 8*16+9, 7*16+9>>
Stores == UNION {[1..n -> ByteVals] : n \in 0..MaxBytes} \cup {ExampleStore}
\* Pattern elements: two digits and one integer outside 0..9.
PatElems == {1, 4, 10}
ExamplePatterns == {<<5, 3, 5>>, <<1, 4>>, <<9, 9, 9, 9>>}
Patterns == UNION {[1..n -> PatElems] : n \in 0..MaxPatLen} \cup ExamplePatterns
\* Characters: ASCII digits, a letter, ARABIC-INDIC DIGIT THREE (U+0663,
\* str.isdigit() true and int() = 3) and SUPERSCRIPT TWO (U+00B2,
\* str.isdigit() true and int() raises ValueError).
AsciiDigits == <<"0", "1", "2", "3", "4", "5", "6", "7", "8", "9">>
PatChars == {"1", "4", "x", "u0663", "u00b2"}
ExampleStrings == {<<"5", "3", "5">>, <<"1", "4">>, <<"9", "9", "9", "9">>}
PatStrings == UNION {[1..n -> PatChars] : n \in 0..MaxPatLen} \cup ExampleStrings
Starts(st) == -1 .. (2 * Len(st))
Counts == 0..MaxCount

(* ----------------------------- outcomes ------------------------------- *)
Ret(v) == [tag |-> "ret", val |-> v]
Raise(e) == [tag |-> "raise", val |-> e]
NoRet == [tag |-> "none", val |-> 0]

(* ------------------------------- state -------------------------------- *)
VARIABLES
    store,      \* the bytes of the pi file; never written after Init
    call,       \* the call being answered: [op, pattern, start, count]
    ret,        \* its outcome
    decoded,    \* _extract_digit_from_byte invocations made by the call
    caught,     \* ValueErrors of a corrupt nibble the call caught and printed
    proc,       \* per running call: its arguments, locals and position in the code
    cursor      \* per open file object or mapping: its read position

vars == <<store, call, ret, decoded, caught, proc, cursor>>

(* --------------------------- file primitives -------------------------- *)
FileSize(st) == Len(st)
NumDigits(st) == FileSize(st) * 2
Min(a, b) == IF a < b THEN a ELSE b
Max(a, b) == IF a > b THEN a ELSE b

\* f.seek(pos); f.read(n): the bytes pos..pos+n-1 that exist (n >= 0).
FileRead(st, pos, n) == SubSeq(st, pos + 1, Min(pos + n, Len(st)))

\* No stored nibble lies outside 0..9.
Uncorrupted(st) ==
    \A k \in 1..Len(st) : st[k] \div 16 <= 9 /\ st[k] % 16 <= 9

\* The digit the packed format stores at position p (no validation).
StoredNibble(st, p) ==
    IF p % 2 = 0 THEN st[(p \div 2) + 1] \div 16 ELSE st[(p \div 2) + 1] % 16

(* ------------------------- _digit_at_position ------------------------- *)
\* The variant that takes the low nibble at an even position and the high
\* nibble at an odd one.
DigitAtPositionSwapped(st, position) ==
    IF position < 0 \/ position >= NumDigits(st) THEN Raise("ValueError")
    ELSE LET byte == FileRead(st, position \div 2, 1)[1]
             digit == IF position % 2 = 0 THEN byte % 16 ELSE byte \div 16
         IN  IF ~(0 <= digit /\ digit <= 9) THEN Raise("ValueError")
             ELSE Ret(digit)

\* Lines 38-54.
DigitAtPosition(st, position) ==
    IF position < 0 \/ position >= NumDigits(st) THEN Raise("ValueError")
    ELSE LET byte_position == position \div 2
             byte == FileRead(st, byte_position, 1)[1]
             digit == IF position % 2 = 0 THEN byte \div 16 ELSE byte % 16
         IN  IF ~(0 <= digit /\ digit <= 9) THEN Raise("ValueError")
             ELSE Ret(digit)

(* ------------------------------ get_digits ---------------------------- *)
RECURSIVE GetDigitsLoop(_, _, _, _, _)
GetDigitsLoop(data, start_position, count, position, result) ==
    IF ~(position < start_position + count) THEN Ret(result)
    ELSE LET byte_position == (position - start_position) \div 2
         IN  IF byte_position >= Len(data) THEN Raise("IndexError")
             ELSE LET b == data[byte_position + 1]
                      digit == IF position % 2 = 0 THEN b \div 16 ELSE b % 16
                  IN  IF ~(0 <= digit /\ digit <= 9) THEN Raise("ValueError")
                      ELSE GetDigitsLoop(data, start_position, count,
                                         position + 1, Append(result, digit))

GetDigits(st, start_position, count0) ==
    IF start_position < 0 \/ start_position >= NumDigits(st)
    THEN Raise("ValueError")
    ELSE LET count == IF start_position + count0 > NumDigits(st)
                      THEN NumDigits(st) - start_position ELSE count0
             byte_start == start_position \div 2
             byte_end == ((start_position + count - 1) \div 2) + 1
             bytes_to_read == byte_end - byte_start
             data == FileRead(st, byte_start, bytes_to_read)
         IN  GetDigitsLoop(data, start_position, count, start_position, <<>>)

(* ----------------------- _extract_digit_from_byte -------------------- *)
ExtractDigitFromByte(byte, is_first_digit) ==
    LET digit == IF is_first_digit THEN byte \div 16 ELSE byte % 16
    IN  IF ~(0 <= digit /\ digit <= 9) THEN Raise("ValueError") ELSE Ret(digit)

(* -------------------------------- search ------------------------------ *)
\* The variant of the check below that forgets the upper bound.
PatternValidNoUpper(pattern) == \A i \in 1..Len(pattern) : 0 <= pattern[i]

\* Line 131: every element of the pattern is a digit.
PatternValid(pattern) ==
    \A i \in 1..Len(pattern) : 0 <= pattern[i] /\ pattern[i] <= 9

\* The variant of the check below that also rejects the last position.
StartOutOfRangeOffByOne(st, start_position) ==
    start_position < 0 \/ start_position >= NumDigits(st) - 1

\* Line 134: the start position lies outside the store.
StartOutOfRange(st, start_position) ==
    start_position < 0 \/ start_position >= NumDigits(st)

\* Lines 127-139: the checks made before the file is opened.  "scan" means
\* the call goes on to the loop; anything else is the call's outcome.
SearchEntry(st, pattern, start_position) ==
    IF pattern = <<>> THEN Ret(-1)
    ELSE IF ~PatternValid(pattern) THEN Raise("ValueError")
    ELSE IF StartOutOfRange(st, start_position) THEN Raise("ValueError")
    ELSE IF Len(pattern) > NumDigits(st) - start_position THEN Ret(-1)
    ELSE [tag |-> "scan", val |-> start_position]

\* The variant of the guard below that forgets the pattern's length.
LoopGuardPastEnd(st, pattern, position) == position <= NumDigits(st)

\* Line 146: the loop's guard.
LoopGuard(st, pattern, position) ==
    position <= NumDigits(st) - Len(pattern)

\* Lines 148-150.
StartByte(position) == position \div 2
BytesNeeded(position, pattern_length) ==
    (((position + pattern_length - 1) \div 2) + 1) - (position \div 2)

\* Lines 156-169: the first comparison pass over the bytes read.  A
\* ValueError of _extract_digit_from_byte is caught and counts as a
\* mismatch; an index outside bytes_data is an IndexError, which is not
\* caught.  n counts the _extract_digit_from_byte calls made, c the
\* ValueErrors caught (each prints an "Error at position" line).
RECURSIVE FirstPass(_, _, _)
FirstPass(bytes_data, pattern, i) ==
    IF i >= Len(pattern) THEN [res |-> "match", n |-> 0, c |-> 0]
    ELSE LET byte_idx == i \div 2
             is_first_digit == (i % 2 = 0)
         IN  IF byte_idx >= Len(bytes_data)
             THEN [res |-> "IndexError", n |-> 0, c |-> 0]
             ELSE LET d == ExtractDigitFromByte(bytes_data[byte_idx + 1],
                                                is_first_digit)
                  IN  IF d.tag = "raise"
                      THEN [res |-> "mismatch", n |-> 1, c |-> 1]
                      ELSE IF d.val # pattern[i + 1]
                      THEN [res |-> "mismatch", n |-> 1, c |-> 0]
                      ELSE LET r == FirstPass(bytes_data, pattern, i + 1)
                           IN  [res |-> r.res, n |-> r.n + 1, c |-> r.c]

\* Lines 177-183: the verification pass; here a ValueError propagates.
RECURSIVE VerifyPass(_, _, _)
VerifyPass(verify_bytes, pattern, i) ==
    IF i >= Len(pattern) THEN [res |-> "match", n |-> 0]
    ELSE LET byte_idx == i \div 2
             is_first_digit == (i % 2 = 0)
         IN  IF byte_idx >= Len(verify_bytes)
             THEN [res |-> "IndexError", n |-> 0]
             ELSE LET d == ExtractDigitFromByte(verify_bytes[byte_idx + 1],
                                                is_first_digit)
                  IN  IF d.tag = "raise" THEN [res |-> "ValueError", n |-> 1]
                      ELSE IF d.val # pattern[i + 1]
                      THEN [res |-> "mismatch", n |-> 1]
                      ELSE LET r == VerifyPass(verify_bytes, pattern, i + 1)
                           IN  [res |-> r.res, n |-> r.n + 1]

\* Lines 145-194: the scan from `position` on.  [out, n, c]: the call's
\* outcome, the number of _extract_digit_from_byte calls made and the
\* number of ValueErrors caught in first passes.
RECURSIVE ScanLoop(_, _, _)
ScanLoop(st, pattern, position) ==
    IF ~LoopGuard(st, pattern, position)
    THEN [out |-> Ret(-1), n |-> 0, c |-> 0]
    ELSE LET bytes_data == FileRead(st, StartByte(position),
                                    BytesNeeded(position, Len(pattern)))
             first == FirstPass(bytes_data, pattern, 0)
             rest == ScanLoop(st, pattern, position + 1)
         IN  IF first.res = "IndexError"
             THEN [out |-> Raise("IndexError"), n |-> first.n, c |-> first.c]
             ELSE IF first.res = "mismatch"
             THEN [out |-> rest.out, n |-> first.n + rest.n,
                   c |-> first.c + rest.c]
             ELSE LET verify_bytes == FileRead(st, StartByte(position),
                                               BytesNeeded(position, Len(pattern)))
                      verify == VerifyPass(verify_bytes, pattern, 0)
                  IN  IF verify.res = "match"
                      THEN [out |-> Ret(position), n |-> first.n + verify.n,
                            c |-> first.c]
                      ELSE IF verify.res = "mismatch"
                      THEN [out |-> rest.out, n |-> first.n + verify.n + rest.n,
                            c |-> first.c + rest.c]
                      ELSE [out |-> Raise(verify.res), n |-> first.n + verify.n,
                            c |-> first.c]

\* search(pattern, start_position) as one run: [out, n, c].
SearchRun(st, pattern, start_position) ==
    LET e == SearchEntry(st, pattern, start_position)
    IN  IF e.tag = "scan" THEN ScanLoop(st, pattern, start_position)
        ELSE [out |-> e, n |-> 0, c |-> 0]

Search(st, pattern, start_position) == SearchRun(st, pattern, start_position).out

(* ----------------------------- search_string -------------------------- *)
\* str.isdigit() of one character, and of a string (false when empty).
IsDigitChar(c) ==
    (\E k \in 1..10 : AsciiDigits[k] = c) \/ c = "u0663" \/ c = "u00b2"
IsDigit(s) == s # <<>> /\ \A i \in 1..Len(s) : IsDigitChar(s[i])

\* int(c) of one character: ValueError unless a decimal digit.
IntOfChar(c) ==
    IF \E k \in 1..10 : AsciiDigits[k] = c
    THEN Ret((CHOOSE k \in 1..10 : AsciiDigits[k] = c) - 1)
    ELSE IF c = "u0663" THEN Ret(3)
    ELSE Raise("ValueError")

\* str(d) of a digit 0..9.
StrOfDigit(d) == AsciiDigits[d + 1]

\* Lines 209-219 as one run: [out, n, c] as for SearchRun.  A ValueError
\* of int() or of search is re-raised as a ValueError.
SearchStringRun(st, pattern_str, start_position) ==
    IF pattern_str = <<>> THEN [out |-> Ret(-1), n |-> 0, c |-> 0]
    ELSE IF ~IsDigit(pattern_str)
    THEN [out |-> Raise("ValueError"), n |-> 0, c |-> 0]
    ELSE IF \E i \in 1..Len(pattern_str) : IntOfChar(pattern_str[i]).tag = "raise"
    THEN [out |-> Raise("ValueError"), n |-> 0, c |-> 0]
    ELSE LET pattern == [i \in 1..Len(pattern_str) |-> IntOfChar(pattern_str[i]).val]
         IN  SearchRun(st, pattern, start_position)

SearchString(st, pattern_str, start_position) ==
    SearchStringRun(st, pattern_str, start_position).out

(* ------------------------------ search_api ---------------------------- *)
ContextBefore == 10
ContextExtra == 20

\* The JSON body and status of a response.  A 400 body carries only an
\* error text: its success and found fields are absent (FALSE here).
ApiResponse(status, kind) ==
    [status |-> status, kind |-> kind, success |-> FALSE, found |-> FALSE,
     position |-> -1, context_start |-> 0, digits |-> <<>>,
     pattern_index |-> 0, pattern_length |-> 0]

\* ''.join(str(d) for d in digits)
JoinDigits(digits) == [i \in 1..Len(digits) |-> StrOfDigit(digits[i])]

SearchApi(st, pattern, start_position) ==
    IF pattern = <<>> THEN ApiResponse(400, "no_pattern")
    ELSE IF ~IsDigit(pattern) THEN ApiResponse(400, "bad_pattern")
    ELSE LET r == SearchString(st, pattern, start_position)
         IN  IF r.tag = "raise" THEN ApiResponse(500, "exception")
             ELSE IF r.val >= 0
             THEN LET position == r.val
                      context_start == Max(0, position - ContextBefore)
                      context_length == Len(pattern) + ContextExtra
                      context_digits == GetDigits(st, context_start, context_length)
                      found_digits == GetDigits(st, position, Len(pattern))
                  IN  IF context_digits.tag = "raise"
                      THEN ApiResponse(500, "exception")
                      ELSE IF found_digits.tag = "raise"
                      THEN ApiResponse(500, "exception")
                      ELSE IF JoinDigits(found_digits.val) # pattern
                      THEN ApiResponse(500, "mismatch")
                      ELSE [status |-> 200, kind |-> "found", success |-> TRUE,
                            found |-> TRUE, position |-> position,
                            context_start |-> context_start,
                            digits |-> JoinDigits(context_digits.val),
                            pattern_index |-> position - context_start,
                            pattern_length |-> Len(pattern)]
             ELSE [ApiResponse(200, "not_found") EXCEPT !.success = TRUE]

(* ------------------- the service answering one call at a time --------- *)
NoCall == [op |-> "none", pattern |-> <<>>, start |-> 0, count |-> 0]
Calls == 1..NumCalls
IdleProc ==
    [pc |-> "idle", op |-> "none", pattern |-> <<>>, start |-> 0, count |-> 0,
     position |-> 0, clamped |-> 0, out |-> NoRet]

Init ==
    /\ store \in Stores
    /\ call = NoCall
    /\ ret = NoRet
    /\ decoded = 0
    /\ caught = 0
    /\ proc = [c \in Calls |-> IdleProc]
    /\ cursor = [h \in Calls |-> 0]

DoDigitAt ==
    /\ call.op = "none"
    /\ \E p \in Starts(store) :
          /\ call' = [op |-> "digit_at", pattern |-> <<>>, start |-> p, count |-> 1]
          /\ ret' = DigitAtPosition(store, p)
    /\ UNCHANGED <<store, decoded, caught, proc, cursor>>

DoGetDigits ==
    /\ call.op = "none"
    /\ \E s \in Starts(store), n \in Counts :
          /\ call' = [op |-> "get_digits", pattern |-> <<>>, start |-> s, count |-> n]
          /\ ret' = GetDigits(store, s, n)
    /\ UNCHANGED <<store, decoded, caught, proc, cursor>>

DoSearch ==
    /\ call.op = "none"
    /\ \E P \in Patterns, s \in Starts(store) :
          /\ call' = [op |-> "search", pattern |-> P, start |-> s, count |-> 0]
          /\ ret' = SearchRun(store, P, s).out
          /\ decoded' = SearchRun(store, P, s).n
          /\ caught' = SearchRun(store, P, s).c
    /\ UNCHANGED <<store, proc, cursor>>

DoSearchString ==
    /\ call.op = "none"
    /\ \E P \in PatStrings, s \in Starts(store) :
          /\ call' = [op |-> "search_string", pattern |-> P, start |-> s, count |-> 0]
          /\ ret' = SearchStringRun(store, P, s).out
          /\ decoded' = SearchStringRun(store, P, s).n
          /\ caught' = SearchStringRun(store, P, s).c
    /\ UNCHANGED <<store, proc, cursor>>

DoSearchApi ==
    /\ call.op = "none"
    /\ \E P \in PatStrings, s \in Starts(store) :
          /\ call' = [op |-> "search_api", pattern |-> P, start |-> s, count |-> 0]
          /\ ret' = SearchApi(store, P, s)
          /\ decoded' = IF IsDigit(P) THEN SearchStringRun(store, P, s).n ELSE 0
          /\ caught' = IF IsDigit(P) THEN SearchStringRun(store, P, s).c ELSE 0
    /\ UNCHANGED <<store, proc, cursor>>

\* The caller takes the outcome; the service is ready for the next call.
Respond ==
    /\ call.op # "none"
    /\ call' = NoCall
    /\ ret' = NoRet
    /\ decoded' = 0
    /\ caught' = 0
    /\ UNCHANGED <<store, proc, cursor>>

Next ==
    \/ DoDigitAt
    \/ DoGetDigits
    \/ DoSearch
    \/ DoSearchString
    \/ DoSearchApi
    \/ Respond

Spec == Init /\ [][Next]_vars

(* ------------- calls running step by step, side by side --------------- *)
\* The variant in which every call reads through one shared file object.
HandleShared(c) == 1

\* Each call opens the file itself (lines 43, 80, 142-143), so it reads
\* through a file object or mapping of its own.
HandleOf(c) == c

\* Stores, patterns and ranges of the calls that run side by side.
ConcStores == {<<4*16+1, 1*16+4>>, <<1*16+10, 1*16+4>>}
ConcPatterns == {<<1>>, <<1, 4>>}
ConcRanges == {<<0, 3>>, <<1, 2>>, <<3, 1>>}

\* read(n) at the handle's position: the bytes, and the position after.
ReadAtCursor(c, n) == FileRead(store, cursor[HandleOf(c)], n)

Seek(c, pos) == cursor' = [cursor EXCEPT ![HandleOf(c)] = pos]
AdvanceCursor(c, n) ==
    cursor' = [cursor EXCEPT ![HandleOf(c)] = @ + Len(ReadAtCursor(c, n))]

Finished(c, out) == proc' = [proc EXCEPT ![c].pc = "done", ![c].out = out]

\* A caller invokes search(pattern, start_position).
CallSearch(c, Ps) ==
    /\ proc[c].pc = "idle"
    /\ \E P \in Ps, s \in Starts(store) :
          proc' = [proc EXCEPT ![c] = [IdleProc EXCEPT !.pc = "entry",
                      !.op = "search", !.pattern = P, !.start = s]]
    /\ UNCHANGED <<store, call, ret, decoded, caught, cursor>>

\* Lines 127-145: the checks, then the file is opened and mapped and the
\* scan position set to the start.
SearchEnter(c) ==
    /\ proc[c].pc = "entry"
    /\ LET e == SearchEntry(store, proc[c].pattern, proc[c].start)
       IN  IF e.tag = "scan"
           THEN /\ proc' = [proc EXCEPT ![c].pc = "loop",
                                        ![c].position = proc[c].start]
                /\ Seek(c, 0)
           ELSE /\ Finished(c, e)
                /\ UNCHANGED cursor
    /\ UNCHANGED <<store, call, ret, decoded, caught>>

\* Line 146, and lines 193-194 when the loop ends.
SearchLoopTest(c) ==
    /\ proc[c].pc = "loop"
    /\ IF LoopGuard(store, proc[c].pattern, proc[c].position)
       THEN proc' = [proc EXCEPT ![c].pc = "seek"]
       ELSE Finished(c, Ret(-1))
    /\ UNCHANGED <<store, call, ret, decoded, caught, cursor>>

\* Lines 148-152.
SearchSeek(c) ==
    /\ proc[c].pc = "seek"
    /\ Seek(c, StartByte(proc[c].position))
    /\ proc' = [proc EXCEPT ![c].pc = "read"]
    /\ UNCHANGED <<store, call, ret, decoded, caught>>

\* Lines 153-171 and 191: the read, the first pass, and the step to the
\* next candidate when it does not match.
SearchRead(c) ==
    /\ proc[c].pc = "read"
    /\ LET n == BytesNeeded(proc[c].position, Len(proc[c].pattern))
           first == FirstPass(ReadAtCursor(c, n), proc[c].pattern, 0)
       IN  /\ AdvanceCursor(c, n)
           /\ IF first.res = "match"
              THEN proc' = [proc EXCEPT ![c].pc = "vseek"]
              ELSE IF first.res = "mismatch"
              THEN proc' = [proc EXCEPT ![c].pc = "loop",
                                       ![c].position = @ + 1]
              ELSE Finished(c, Raise(first.res))
    /\ UNCHANGED <<store, call, ret, decoded, caught>>

\* Line 173.
SearchVerifySeek(c) ==
    /\ proc[c].pc = "vseek"
    /\ Seek(c, StartByte(proc[c].position))
    /\ proc' = [proc EXCEPT ![c].pc = "vread"]
    /\ UNCHANGED <<store, call, ret, decoded, caught>>

\* Lines 174-191: the second read, the verification pass, and the return
\* of the position or the step to the next candidate.
SearchVerifyRead(c) ==
    /\ proc[c].pc = "vread"
    /\ LET n == BytesNeeded(proc[c].position, Len(proc[c].pattern))
           verify == VerifyPass(ReadAtCursor(c, n), proc[c].pattern, 0)
       IN  /\ AdvanceCursor(c, n)
           /\ IF verify.res = "match"
              THEN Finished(c, Ret(proc[c].position))
              ELSE IF verify.res = "mismatch"
              THEN proc' = [proc EXCEPT ![c].pc = "loop",
                                       ![c].position = @ + 1]
              ELSE Finished(c, Raise(verify.res))
    /\ UNCHANGED <<store, call, ret, decoded, caught>>

\* A caller invokes get_digits(start_position, count).
CallGetDigits(c, Rs) ==
    /\ proc[c].pc = "idle"
    /\ \E r \in Rs :
          proc' = [proc EXCEPT ![c] = [IdleProc EXCEPT !.pc = "g_entry",
                      !.op = "get_digits", !.start = r[1], !.count = r[2]]]
    /\ UNCHANGED <<store, call, ret, decoded, caught, cursor>>

\* Lines 69-80: the range check, the clamp of count, and the open.
GetDigitsEnter(c) ==
    /\ proc[c].pc = "g_entry"
    /\ IF proc[c].start < 0 \/ proc[c].start >= NumDigits(store)
       THEN /\ Finished(c, Raise("ValueError"))
            /\ UNCHANGED cursor
       ELSE /\ proc' = [proc EXCEPT ![c].pc = "g_seek",
                          ![c].clamped =
                              IF proc[c].start + proc[c].count > NumDigits(store)
                              THEN NumDigits(store) - proc[c].start
                              ELSE proc[c].count]
            /\ Seek(c, 0)
    /\ UNCHANGED <<store, call, ret, decoded, caught>>

\* Line 81.
GetDigitsSeek(c) ==
    /\ proc[c].pc = "g_seek"
    /\ Seek(c, proc[c].start \div 2)
    /\ proc' = [proc EXCEPT ![c].pc = "g_read"]
    /\ UNCHANGED <<store, call, ret, decoded, caught>>

\* Lines 82-97: the read and the decoding loop over the bytes read.
GetDigitsRead(c) ==
    /\ proc[c].pc = "g_read"
    /\ LET byte_start == proc[c].start \div 2
           byte_end == ((proc[c].start + proc[c].clamped - 1) \div 2) + 1
           bytes_to_read == byte_end - byte_start
       IN  /\ Finished(c, GetDigitsLoop(ReadAtCursor(c, bytes_to_read),
                                        proc[c].start, proc[c].clamped,
                                        proc[c].start, <<>>))
           /\ AdvanceCursor(c, bytes_to_read)
    /\ UNCHANGED <<store, call, ret, decoded, caught>>

\* The caller takes the outcome of a finished call.
TakeResult(c) ==
    /\ proc[c].pc = "done"
    /\ proc' = [proc EXCEPT ![c] = IdleProc]
    /\ UNCHANGED <<store, call, ret, decoded, caught, cursor>>

\* The steps of a call once made.
Run(c) ==
    \/ SearchEnter(c)
    \/ SearchLoopTest(c)
    \/ SearchSeek(c)
    \/ SearchRead(c)
    \/ SearchVerifySeek(c)
    \/ SearchVerifyRead(c)
    \/ GetDigitsEnter(c)
    \/ GetDigitsSeek(c)
    \/ GetDigitsRead(c)
    \/ TakeResult(c)

ConcInit ==
    /\ store \in ConcStores
    /\ call = NoCall
    /\ ret = NoRet
    /\ decoded = 0
    /\ caught = 0
    /\ proc = [c \in Calls |-> IdleProc]
    /\ cursor = [h \in Calls |-> 0]

ConcNext ==
    \E c \in Calls :
        \/ CallSearch(c, ConcPatterns)
        \/ CallGetDigits(c, ConcRanges)
        \/ Run(c)

\* Any number of calls, their steps interleaved in any order.
ConcSpec == ConcInit /\ [][ConcNext]_vars

\* Stores of one search running alone to its end.
ScanStores == {st \in Stores : Uncorrupted(st)} \cup ConcStores

ScanInit ==
    /\ store \in ScanStores
    /\ call = NoCall
    /\ ret = NoRet
    /\ decoded = 0
    /\ caught = 0
    /\ proc = [c \in Calls |-> IdleProc]
    /\ cursor = [h \in Calls |-> 0]

ScanNext ==
    \/ CallSearch(1, Patterns)
    \/ CallGetDigits(1, ConcRanges)
    \/ Run(1)

\* One call at a time, which the interpreter keeps executing.
ScanSpec == ScanInit /\ [][ScanNext]_vars /\ WF_vars(Run(1))

(* ======================= properties of the service ==================== *)
\* The store's digits p..p+Len(pattern)-1 exist and equal the pattern.
MatchAt(st, pattern, p) ==
    /\ 0 <= p
    /\ p + Len(pattern) <= NumDigits(st)
    /\ \A i \in 1..Len(pattern) : StoredNibble(st, p + i - 1) = pattern[i]

\* A search call whose pattern and start position are valid.
ValidSearchCall ==
    /\ call.op = "search"
    /\ call.pattern # <<>>
    /\ \A i \in 1..Len(call.pattern) : call.pattern[i] \in 0..9
    /\ 0 <= call.start
    /\ call.start < NumDigits(store)

\* C1 (as claimed): on an uncorrupted store, when the pattern occurs at a
\* position p at or after the start, search returns a position r with
\* start <= r <= p, and the pattern occurs nowhere in start..r-1.
C1_FirstMatch ==
    (ValidSearchCall /\ Uncorrupted(store)) =>
        \A p \in call.start .. NumDigits(store) :
            MatchAt(store, call.pattern, p) =>
                /\ ret.tag = "ret"
                /\ call.start <= ret.val
                /\ ret.val <= p
                /\ \A q \in call.start .. (ret.val - 1) :
                      ~MatchAt(store, call.pattern, q)

\* C2 (as claimed): on an uncorrupted store, a position r >= 0 returned by
\* search is at or after the start, leaves room for the pattern, and the
\* store's digits r..r+len-1 are the pattern.
C2_FoundIsMatch ==
    (ValidSearchCall /\ Uncorrupted(store) /\ ret.tag = "ret" /\ ret.val >= 0) =>
        /\ call.start <= ret.val
        /\ MatchAt(store, call.pattern, ret.val)

\* C3 (as claimed): on an uncorrupted store, get_digits(start, count) with
\* start in range returns min(count, num_digits - start) digits, the i-th
\* being the stored digit at start + i.
C3_GetDigitsDecodes ==
    (/\ call.op = "get_digits"
     /\ Uncorrupted(store)
     /\ 0 <= call.start
     /\ call.start < NumDigits(store)) =>
        /\ ret.tag = "ret"
        /\ Len(ret.val) = Min(call.count, NumDigits(store) - call.start)
        /\ \A i \in 1..Len(ret.val) :
              ret.val[i] = StoredNibble(store, call.start + i - 1)

\* C4: for a position p in range, _digit_at_position(p) and
\* get_digits(p, 1) both fail, or get_digits(p, 1) is the one-element list
\* holding the digit _digit_at_position(p) returned.
C4_DigitAtAgreesWithGetDigits ==
    (call.op = "digit_at" /\ 0 <= call.start /\ call.start < NumDigits(store)) =>
        LET g == GetDigits(store, call.start, 1)
        IN  \/ ret.tag = "raise" /\ g.tag = "raise"
            \/ ret.tag = "ret" /\ g.tag = "ret" /\ g.val = <<ret.val>>

\* A digit was read both ways at an odd position of the store.
C4_Witness ==
    /\ call.op = "digit_at"
    /\ call.start = 3
    /\ ret = Ret(4)
    /\ GetDigits(store, 3, 1) = Ret(<<4>>)

\* C5 (as claimed): a search that decoded a nibble outside 0..9 while
\* testing a candidate fails with an error.
C5_CorruptDataPropagates ==
    (call.op = "search" /\ caught > 0) => ret.tag = "raise"

\* Characters int() converts to a digit.
DecimalChars == {AsciiDigits[k] : k \in 1..10} \cup {"u0663"}

\* The call's pattern is empty or holds an element that is not a digit.
InvalidPatternCall ==
    \/ /\ call.op = "search"
       /\ \/ call.pattern = <<>>
          \/ \E i \in 1..Len(call.pattern) : call.pattern[i] \notin 0..9
    \/ /\ call.op = "search_string"
       /\ \/ call.pattern = <<>>
          \/ \E i \in 1..Len(call.pattern) : call.pattern[i] \notin DecimalChars

\* C6 (as claimed): search and search_string fail with an error whenever
\* the pattern is empty or holds a non-digit, for every start position.
C6_InvalidPatternFails ==
    InvalidPatternCall => ret.tag = "raise"

\* C6 (amended): search and search_string fail with a ValueError whenever
\* the pattern is non-empty and holds a non-digit, for every start
\* position; for an empty pattern both return -1.
C6_InvalidPatternAmended ==
    InvalidPatternCall =>
        IF call.pattern = <<>> THEN ret = Ret(-1) ELSE ret = Raise("ValueError")

\* search was given a non-empty pattern with an element outside 0..9 and a
\* start position inside the store.
C6_Witness ==
    /\ call.op = "search"
    /\ call.pattern = <<1, 10>>
    /\ call.start = 1
    /\ NumDigits(store) = 4
    /\ ret = Raise("ValueError")

\* C7: a search with a valid pattern longer than the digits left after a
\* start position inside the store returns -1 and decodes no digit,
\* whatever the store holds.
C7_TooLongIsNotFound ==
    (ValidSearchCall /\ Len(call.pattern) > NumDigits(store) - call.start) =>
        /\ ret = Ret(-1)
        /\ decoded = 0

\* Such a search ran on a store that holds a nibble outside 0..9.
C7_Witness ==
    /\ ValidSearchCall
    /\ Len(call.pattern) > NumDigits(store) - call.start
    /\ ~Uncorrupted(store)
    /\ ret = Ret(-1)

\* C10 (as claimed): when search_api answers success and found with
\* position r on an uncorrupted store, the store's digits r..r+len-1 spell
\* the pattern, and so do the context digits from pattern_index on.
C10_ApiFoundIsMatch ==
    (/\ call.op = "search_api"
     /\ Uncorrupted(store)
     /\ ret.success
     /\ ret.found) =>
        /\ ret.position + Len(call.pattern) <= NumDigits(store)
        /\ \A i \in 1..Len(call.pattern) :
              /\ StrOfDigit(StoredNibble(store, ret.position + i - 1)) = call.pattern[i]
              /\ ret.pattern_index + i <= Len(ret.digits)
              /\ ret.digits[ret.pattern_index + i] = call.pattern[i]

(* ================== properties of calls run step by step ============== *)
\* C8: whatever the interleaving, a finished search or get_digits call
\* holds the outcome the same call has when it runs alone, a function of
\* the store and of its own arguments only; two finished calls with the
\* same arguments hold the same outcome.
C8_CallsIndependent ==
    /\ \A c \in Calls :
          proc[c].pc = "done" =>
              proc[c].out =
                  IF proc[c].op = "search"
                  THEN Search(store, proc[c].pattern, proc[c].start)
                  ELSE GetDigits(store, proc[c].start, proc[c].count)
    /\ \A c1, c2 \in Calls :
          (/\ proc[c1].pc = "done"
           /\ proc[c2].pc = "done"
           /\ proc[c1].op = proc[c2].op
           /\ proc[c1].pattern = proc[c2].pattern
           /\ proc[c1].start = proc[c2].start
           /\ proc[c1].count = proc[c2].count) =>
              proc[c1].out = proc[c2].out

\* A search has returned a found position while another search, which
\* seeked to a different byte, has not yet read.
C8_Witness ==
    /\ proc[1].pc = "done"
    /\ proc[1].op = "search"
    /\ proc[1].out = Ret(proc[1].position)
    /\ proc[2].op = "search"
    /\ proc[2].pc = "read"
    /\ StartByte(proc[2].position) # StartByte(proc[1].position)

ScanPcs == {"seek", "read", "vseek", "vread"}

\* While a candidate is tested the scan position lies in
\* start..num_digits - len, and the bytes it reads lie inside the file.
C9_InRange ==
    \A c \in Calls :
        proc[c].pc \in ScanPcs =>
            /\ proc[c].start <= proc[c].position
            /\ proc[c].position <= NumDigits(store) - Len(proc[c].pattern)
            /\ StartByte(proc[c].position)
                 + BytesNeeded(proc[c].position, Len(proc[c].pattern))
                    <= FileSize(store)

\* The scan starts at the start position, moves only by one, and only
\* when a candidate failed; with fewer digits left than the pattern has,
\* the call returns -1 at once.
C9_Advance ==
    \A c \in Calls :
        /\ (proc[c].pc = "entry" /\ proc'[c].pc = "loop") =>
              proc'[c].position = proc[c].start
        /\ (proc[c].pc \in ScanPcs /\ proc'[c].position # proc[c].position) =>
              /\ proc[c].pc \in {"read", "vread"}
              /\ proc'[c].pc = "loop"
              /\ proc'[c].position = proc[c].position + 1
        /\ (/\ proc[c].pc = "loop"
            /\ proc'[c] # proc[c]
            /\ NumDigits(store) - proc[c].position < Len(proc[c].pattern)) =>
              /\ proc'[c].pc = "done"
              /\ proc'[c].out = Ret(-1)
        /\ (proc[c].pc = "loop" /\ proc'[c].pc # "done") =>
              proc'[c].position = proc[c].position

\* C9: every search call returns; while it scans, its position starts at
\* the start position, grows by one per failed candidate, stays within
\* num_digits - len whenever a candidate is tested, and the call returns
\* -1 as soon as fewer digits are left than the pattern has.
C9_ScanTerminates ==
    /\ []C9_InRange
    /\ [][C9_Advance]_vars
    /\ \A c \in Calls : (proc[c].pc = "entry") ~> (proc[c].pc = "done")

\* A search that tested every candidate from its start position to the
\* last one and returned -1.
C9_Witness ==
    /\ proc[1].pc = "done"
    /\ proc[1].op = "search"
    /\ proc[1].out = Ret(-1)
    /\ proc[1].start = 1
    /\ proc[1].position = NumDigits(store) - Len(proc[1].pattern) + 1
    /\ proc[1].position > proc[1].start + 2

=============================================================================
